---- MODULE Spec2Model ----
(***************************************************************************)
(* ERP System API (src/main.py): customers, products, receipts with line   *)
(* items, reservations, sales and the customer current account, as a state *)
(* machine over the relational store.  One action per write endpoint; the  *)
(* read endpoints are operators over the store.  The endpoints that only   *)
(* write a column left out below (the two estado patches) and DELETE       *)
(* /reservas/{rid} are not modelled.                                       *)
(*                                                                         *)
(* Modelled columns: the ones an endpoint reads, filters on, or shows.     *)
(* Columns that are only stored and echoed (documento, telefono, email,    *)
(* direccion, descripcion, precio, stock_minimo, subtotal, descuento,      *)
(* estado of a receipt, observaciones, precio_unitario, forma_pago,        *)
(* vendedor, concepto, saldo, fecha_entrega) are left out.  Amounts are    *)
(* whole units held in a floating-point format of Mantisa significant     *)
(* bits, as the Float columns hold them in double precision.               *)
(***************************************************************************)
EXTENDS Integers, Sequences, FiniteSets, TLC

\* ---------------------------------------------------------------- bounds
MaxClientes  == 2
MaxProductos == 2
MaxRecibos   == 2
MaxItems     == 2
MaxVentas    == 1
MaxMovs      == 2
MaxLibro     == 3
MaxReservas  == 1
MaxMonto     == 2
MaxCantidad  == 1
MaxDia       == 2
\* Significant bits of a Float amount (53 in the double precision of the
\* Float columns and of Python's float).
Mantisa      == 3

\* ------------------------------------------------------- program constants
\* Optional[int] = None: the absent reference (ids start at 1)
None == 0
\* " 23:59:59", the second of the day appended to hasta (86399 = 23*3600+59*60+59)
UltimoSegundo == 86399

VARIABLES
    dialect,          \* the store DATABASE_URL selects
    now,              \* datetime.datetime.utcnow()
    clientes,         \* table clientes:         id -> row
    productos,        \* table productos:        id -> row
    recibos,          \* table recibos:          id -> row, with its items
    reservas,         \* table reservas:         rows in insertion order
    ventas,           \* table ventas:           rows in insertion order
    cuenta_corriente, \* table cuenta_corriente: rows in insertion order
    seq,              \* the id sequences of productos and recibos
    resp              \* the last response: endpoint and HTTP status

vars == <<dialect, now, clientes, productos, recibos, reservas, ventas,
          cuenta_corriente, seq, resp>>

tablas == <<clientes, productos, recibos, reservas, ventas, cuenta_corriente>>

\* ------------------------------------------------------------ the store

\* DATABASE_URL: "postgres://" is rewritten to "postgresql://"; unset falls
\* back to the local SQLite file.
Dialects == {"sqlite", "postgresql"}

\* SQLite does not enforce FOREIGN KEY constraints unless PRAGMA foreign_keys
\* is set, and the engine is created without it; PostgreSQL always does.
fkEnforced == dialect = "postgresql"

Max(S) == IF S = {} THEN 0 ELSE CHOOSE m \in S : \A x \in S : x <= m

\* The id an INSERT gets: SQLite's rowid is one more than the largest in
\* use; PostgreSQL draws from the table's sequence.
NuevoId(tabla, s) ==
    IF dialect = "sqlite" THEN Max(DOMAIN tabla) + 1 ELSE s + 1

\* A sequence value is consumed by a failed INSERT too (PostgreSQL only;
\* the model keeps seq at 0 under SQLite).
Avanza(t) ==
    IF dialect = "sqlite" THEN seq ELSE [seq EXCEPT ![t] = @ + 1]

Sin(tabla, id) == [i \in (DOMAIN tabla) \ {id} |-> tabla[i]]

\* A nullable foreign key holds when it is NULL or names a row.
FkOk(ref, tabla) == ref = None \/ ref \in DOMAIN tabla

\* ---------------------------------------------------------------- time

\* A timestamp is <<day, second of the day, microsecond>>.
Segundos == {0, UltimoSegundo}
Micros   == {0, 1}
Instantes == (1..MaxDia) \X Segundos \X Micros

Antes(a, b) ==
    \/ a[1] < b[1]
    \/ a[1] = b[1] /\ a[2] < b[2]
    \/ a[1] = b[1] /\ a[2] = b[2] /\ a[3] < b[3]

Respuesta(op, status) == [op |-> op, status |-> status]

\* ------------------------------------------------------ Float arithmetic

RECURSIVE Dos(_)
\* 2^n
Dos(n) == IF n = 0 THEN 1 ELSE 2 * Dos(n - 1)

RECURSIVE Paso(_)
\* The distance between neighbouring Float values at magnitude a: whole
\* units below 2^Mantisa are all representable, above it only multiples of
\* 2, then of 4, and so on.
Paso(a) == IF a < Dos(Mantisa) THEN 1 ELSE 2 * Paso(a \div 2)

\* The Float nearest to x, a tie going to the even significand.
Redondea(x) ==
    LET a == IF x < 0 THEN 0 - x ELSE x
        p == Paso(a)
        q == a \div p
        r == a % p
        arriba == 2 * r > p \/ (2 * r = p /\ q % 2 = 1)
        v == (IF arriba THEN q + 1 ELSE q) * p
    IN  IF x < 0 THEN 0 - v ELSE v

\* Float addition and subtraction: the exact result, rounded.
Mas(a, b)   == Redondea(a + b)
Menos(a, b) == Redondea(a - b)

\* ---------------------------------------------------------- request bodies

Nombres   == {"Ana", "Luis"}
Codigos   == {"P1", "P2"}
Articulos == {"Pan"}
Numeros   == {"R1", "R2"}
Tipos     == {"DEBE", "HABER", "AJUSTE"}
Montos    == 1..MaxMonto
\* The least amount whose successor is not a Float.
MontoGrande == Dos(Mantisa)
Importes  == Montos \cup {MontoGrande}
Cantidades == 1..MaxCantidad
Stocks    == 0..MaxCantidad
RefsCliente  == {None} \cup (1..MaxClientes)
RefsProducto == {None} \cup (1..MaxProductos)
RefsRecibo   == {None} \cup (1..MaxRecibos)

ClienteCreate == [nombre : Nombres]

ProductoCreate == [codigo : Codigos, nombre : Articulos, stock : Stocks]

ReciboItemCreate == [producto_id : RefsProducto, cantidad : Cantidades]

SeqHasta(S, n) == UNION {[1..k -> S] : k \in 0..n}

ReciboCreate ==
    [numero : Numeros, cliente_id : RefsCliente, total : Montos,
     items : SeqHasta(ReciboItemCreate, MaxItems)]

ReservaCreate == [cliente_id : RefsCliente, producto_id : RefsProducto]

VentaCreate == [recibo_id : RefsRecibo, cliente_id : RefsCliente, total : Montos]

CuentaCorrienteCreate ==
    [cliente_id : 1..MaxClientes, tipo : Tipos, monto : Importes,
     recibo_id : RefsRecibo]

\* ----------------------------------------------------------- table rows

Cliente  == [nombre : Nombres, activo : BOOLEAN]
Producto == [codigo : Codigos, nombre : Articulos, stock : Stocks, activo : BOOLEAN]
Recibo   == [numero : Numeros, cliente_id : RefsCliente, fecha : Instantes,
             total : Montos, items : SeqHasta(ReciboItemCreate, MaxItems)]
Reserva  == [cliente_id : RefsCliente, producto_id : RefsProducto]
Venta    == [recibo_id : RefsRecibo, cliente_id : RefsCliente,
             fecha : Instantes, total : Montos]
CuentaCorriente ==
    [cliente_id : 1..MaxClientes, tipo : Tipos, monto : Importes,
     recibo_id : RefsRecibo]

TypeOK ==
    /\ dialect \in Dialects
    /\ now \in Instantes
    /\ DOMAIN clientes = 1..Len(clientes) /\ Len(clientes) <= MaxClientes
    /\ \A c \in DOMAIN clientes : clientes[c] \in Cliente
    /\ DOMAIN productos \subseteq 1..MaxProductos
    /\ \A p \in DOMAIN productos : productos[p] \in Producto
    /\ DOMAIN recibos \subseteq 1..MaxRecibos
    /\ \A r \in DOMAIN recibos : recibos[r] \in Recibo
    /\ Len(reservas) <= MaxReservas
    /\ \A i \in 1..Len(reservas) : reservas[i] \in Reserva
    /\ Len(ventas) <= MaxVentas
    /\ \A i \in 1..Len(ventas) : ventas[i] \in Venta
    /\ Len(cuenta_corriente) <= MaxLibro
    /\ \A i \in 1..Len(cuenta_corriente) : cuenta_corriente[i] \in CuentaCorriente
    /\ seq \in [{"productos", "recibos"} -> 0..(MaxProductos + MaxRecibos)]
    /\ resp.status \in {200, 404, 500}

\* ----------------------------------------------------------------- Init

Init ==
    /\ dialect \in Dialects
    /\ now = <<1, 0, 0>>
    /\ clientes = <<>>
    /\ productos = <<>>
    /\ recibos = <<>>
    /\ reservas = <<>>
    /\ ventas = <<>>
    /\ cuenta_corriente = <<>>
    /\ seq = [productos |-> 0, recibos |-> 0]
    /\ resp = Respuesta("root", 200)

\* The clock moves forward between requests.
Tick ==
    /\ \E t \in Instantes : Antes(now, t) /\ now' = t
    /\ UNCHANGED <<dialect, tablas, seq, resp>>

\* ------------------------------------------------------------- clientes

\* GET /clientes: the active customers (ordered by name).
list_clientes == {c \in DOMAIN clientes : clientes[c].activo = TRUE}

\* GET /clientes/{cid}
get_cliente(cid) ==
    IF cid \in DOMAIN clientes
    THEN [status |-> 200, id |-> cid, body |-> clientes[cid]]
    ELSE [status |-> 404, id |-> cid, body |-> [nombre |-> "", activo |-> FALSE]]

\* POST /clientes
create_cliente(data) ==
    /\ Len(clientes) < MaxClientes
    /\ clientes' = Append(clientes, [nombre |-> data.nombre, activo |-> TRUE])
    /\ resp' = Respuesta("create_cliente", 200)
    /\ UNCHANGED <<dialect, now, productos, recibos, reservas, ventas,
                   cuenta_corriente, seq>>

\* update_cliente writing activo too, as if it were a field of ClienteCreate
\* with the column's default.
update_cliente_Reactiva(cid, data) ==
    /\ IF cid \in DOMAIN clientes
       THEN /\ clientes' = [clientes EXCEPT ![cid] =
                                [nombre |-> data.nombre, activo |-> TRUE]]
            /\ resp' = Respuesta("update_cliente", 200)
       ELSE /\ clientes' = clientes
            /\ resp' = Respuesta("update_cliente", 404)
    /\ UNCHANGED <<dialect, now, productos, recibos, reservas, ventas,
                   cuenta_corriente, seq>>

\* PUT /clientes/{cid}: every field of ClienteCreate is overwritten; activo
\* is not a field of ClienteCreate.
update_cliente(cid, data) ==
    /\ IF cid \in DOMAIN clientes
       THEN /\ clientes' = [clientes EXCEPT ![cid].nombre = data.nombre]
            /\ resp' = Respuesta("update_cliente", 200)
       ELSE /\ clientes' = clientes
            /\ resp' = Respuesta("update_cliente", 404)
    /\ UNCHANGED <<dialect, now, productos, recibos, reservas, ventas,
                   cuenta_corriente, seq>>

\* DELETE /clientes/{cid}: an UPDATE of activo, which violates no constraint,
\* so the IntegrityError branch is never taken.
delete_cliente(cid) ==
    /\ IF cid \in DOMAIN clientes
       THEN /\ clientes' = [clientes EXCEPT ![cid].activo = FALSE]
            /\ resp' = Respuesta("delete_cliente", 200)
       ELSE /\ clientes' = clientes
            /\ resp' = Respuesta("delete_cliente", 404)
    /\ UNCHANGED <<dialect, now, productos, recibos, reservas, ventas,
                   cuenta_corriente, seq>>

\* The customer looked up among the active customers only.
NombreCliente_SoloActivos(cliente_id, ausente) ==
    IF cliente_id \in DOMAIN clientes /\ clientes[cliente_id].activo
    THEN clientes[cliente_id].nombre
    ELSE ausente

\* `cliente.nombre if cliente else <placeholder>`, cliente being the first
\* row of clientes with that id, active or not (NULL matches no row).
NombreCliente(cliente_id, ausente) ==
    IF cliente_id \in DOMAIN clientes THEN clientes[cliente_id].nombre ELSE ausente

\* ------------------------------------------------------------ productos

\* productos.codigo without the unique constraint.
CodigoLibre_SinUnique(codigo, excepto) == TRUE

\* Producto.codigo is unique=True: the INSERT or UPDATE of a row whose codigo
\* another row (any row but `excepto`) already has raises IntegrityError.
CodigoLibre(codigo, excepto) ==
    \A p \in (DOMAIN productos) \ {excepto} : productos[p].codigo # codigo

\* POST /productos: the IntegrityError is not caught, the response is 500
\* and the session closes without a commit.
create_producto(data) ==
    LET id == NuevoId(productos, seq.productos) IN
    /\ id <= MaxProductos
    /\ seq' = Avanza("productos")
    /\ IF CodigoLibre(data.codigo, None)
       THEN /\ productos' = productos @@
                    (id :> [codigo |-> data.codigo, nombre |-> data.nombre,
                            stock |-> data.stock, activo |-> TRUE])
            /\ resp' = Respuesta("create_producto", 200)
       ELSE /\ productos' = productos
            /\ resp' = Respuesta("create_producto", 500)
    /\ UNCHANGED <<dialect, now, clientes, recibos, reservas, ventas,
                   cuenta_corriente>>

\* PUT /productos/{pid}: every field of ProductoCreate is overwritten.
update_producto(pid, data) ==
    /\ IF pid \notin DOMAIN productos
       THEN /\ productos' = productos
            /\ resp' = Respuesta("update_producto", 404)
       ELSE IF CodigoLibre(data.codigo, pid)
       THEN /\ productos' = [productos EXCEPT ![pid].codigo = data.codigo,
                                              ![pid].nombre = data.nombre,
                                              ![pid].stock = data.stock]
            /\ resp' = Respuesta("update_producto", 200)
       ELSE /\ productos' = productos
            /\ resp' = Respuesta("update_producto", 500)
    /\ UNCHANGED <<dialect, now, clientes, recibos, reservas, ventas,
                   cuenta_corriente, seq>>

\* PATCH /productos/{pid}/stock
update_stock(pid, stock) ==
    /\ IF pid \in DOMAIN productos
       THEN /\ productos' = [productos EXCEPT ![pid].stock = stock]
            /\ resp' = Respuesta("update_stock", 200)
       ELSE /\ productos' = productos
            /\ resp' = Respuesta("update_stock", 404)
    /\ UNCHANGED <<dialect, now, clientes, recibos, reservas, ventas,
                   cuenta_corriente, seq>>

\* DELETE /productos/{pid}
delete_producto(pid) ==
    /\ IF pid \in DOMAIN productos
       THEN /\ productos' = [productos EXCEPT ![pid].activo = FALSE]
            /\ resp' = Respuesta("delete_producto", 200)
       ELSE /\ productos' = productos
            /\ resp' = Respuesta("delete_producto", 404)
    /\ UNCHANGED <<dialect, now, clientes, recibos, reservas, ventas,
                   cuenta_corriente, seq>>

\* -------------------------------------------------------------- recibos

\* Recibo.numero is unique=True.
NumeroLibre(numero) == \A r \in DOMAIN recibos : recibos[r].numero # numero

\* db.flush() after db.add(r): the INSERT of the header.  It raises
\* IntegrityError on a duplicate numero, and on a cliente_id that names no
\* customer where the store enforces foreign keys.
FlushRecibo(data) ==
    /\ NumeroLibre(data.numero)
    /\ fkEnforced => FkOk(data.cliente_id, clientes)

\* db.commit() after the db.add of every ReciboDetalle: the INSERTs of the
\* lines.  The only constraint on a line is the foreign key producto_id.
CommitItems(items) ==
    fkEnforced => \A i \in 1..Len(items) : FkOk(items[i].producto_id, productos)

\* POST /recibos: header, flush, one ReciboDetalle per item, commit.  No
\* product is read or written, and no Venta or CuentaCorriente row is added.
\* No exception is caught: a failed flush or commit is a 500, and the
\* session closes without a commit.
create_recibo(data) ==
    LET id == NuevoId(recibos, seq.recibos) IN
    /\ Cardinality(DOMAIN recibos) < MaxRecibos
    /\ id <= MaxRecibos
    /\ seq' = Avanza("recibos")
    /\ IF FlushRecibo(data) /\ CommitItems(data.items)
       THEN /\ recibos' = recibos @@
                    (id :> [numero |-> data.numero,
                            cliente_id |-> data.cliente_id,
                            fecha |-> now, total |-> data.total,
                            items |-> data.items])
            /\ resp' = Respuesta("create_recibo", 200)
       ELSE /\ recibos' = recibos
            /\ resp' = Respuesta("create_recibo", 500)
    /\ UNCHANGED <<dialect, now, clientes, productos, reservas, ventas,
                   cuenta_corriente>>

\* The stored text of a DateTime under SQLite, "YYYY-MM-DD HH:MM:SS.ffffff",
\* as its zero-padded fields: texts compare as their field lists do, a proper
\* prefix before the longer text.
Texto(fecha) == <<fecha[1], fecha[2], fecha[3]>>

\* The parameters of the date filter: desde is "YYYY-MM-DD", and the upper
\* bound is hasta + " 23:59:59".
TextoDesde(desde) == <<desde>>
TextoHasta(hasta) == <<hasta, UltimoSegundo>>

RECURSIVE MenorIgualTexto(_, _)
\* String comparison a <= b.
MenorIgualTexto(a, b) ==
    IF a = <<>> THEN TRUE
    ELSE IF b = <<>> THEN FALSE
    ELSE IF Head(a) < Head(b) THEN TRUE
    ELSE IF Head(a) > Head(b) THEN FALSE
    ELSE MenorIgualTexto(Tail(a), Tail(b))

\* PostgreSQL reads the text parameter as a timestamp: the missing time of
\* day is midnight, the missing fraction zero.
ATimestamp(texto) ==
    <<texto[1], IF Len(texto) >= 2 THEN texto[2] ELSE 0,
      IF Len(texto) >= 3 THEN texto[3] ELSE 0>>

\* fecha >= texto and fecha <= texto, a DateTime column against a str: SQLite
\* compares the stored text with the parameter, PostgreSQL compares
\* timestamps.
FechaMayorIgual(fecha, texto) ==
    IF dialect = "sqlite" THEN MenorIgualTexto(texto, Texto(fecha))
    ELSE ~Antes(fecha, ATimestamp(texto))

FechaMenorIgual(fecha, texto) ==
    IF dialect = "sqlite" THEN MenorIgualTexto(Texto(fecha), texto)
    ELSE ~Antes(ATimestamp(texto), fecha)

EnRango(fecha, desde, hasta) ==
    /\ FechaMayorIgual(fecha, TextoDesde(desde))
    /\ FechaMenorIgual(fecha, TextoHasta(hasta))

\* The row a receipt listing shows.
FilaRecibo(r) ==
    [id |-> r, numero |-> recibos[r].numero,
     cliente |-> NombreCliente(recibos[r].cliente_id, "Sin cliente"),
     fecha |-> recibos[r].fecha, total |-> recibos[r].total]

\* GET /recibos with the default limit of 100 rows, which the bound on the
\* table never reaches (the order of the rows is not modelled).
list_recibos == {FilaRecibo(r) : r \in DOMAIN recibos}

\* GET /recibos/filtrar?desde&hasta
filtrar_recibos(desde, hasta) ==
    {FilaRecibo(r) : r \in {x \in DOMAIN recibos :
                               EnRango(recibos[x].fecha, desde, hasta)}}

\* A row of ventas or cuenta_corriente references the receipt.
Referenciado(rid) ==
    \/ \E i \in 1..Len(ventas) : ventas[i].recibo_id = rid
    \/ \E i \in 1..Len(cuenta_corriente) : cuenta_corriente[i].recibo_id = rid

\* DELETE /recibos/{rid}: the lines go with the header (cascade
\* "all, delete-orphan"); where foreign keys are enforced the DELETE of a
\* referenced receipt raises IntegrityError.
delete_recibo(rid) ==
    /\ IF rid \notin DOMAIN recibos
       THEN /\ recibos' = recibos
            /\ resp' = Respuesta("delete_recibo", 404)
       ELSE IF fkEnforced /\ Referenciado(rid)
       THEN /\ recibos' = recibos
            /\ resp' = Respuesta("delete_recibo", 500)
       ELSE /\ recibos' = Sin(recibos, rid)
            /\ resp' = Respuesta("delete_recibo", 200)
    /\ UNCHANGED <<dialect, now, clientes, productos, reservas, ventas,
                   cuenta_corriente, seq>>

\* ------------------------------------------------------------- reservas

\* `producto.nombre if producto else "N/A"`
NombreProducto(producto_id, ausente) ==
    IF producto_id \in DOMAIN productos THEN productos[producto_id].nombre
    ELSE ausente

\* GET /reservas
list_reservas ==
    {[id |-> i,
      cliente |-> NombreCliente(reservas[i].cliente_id, "N/A"),
      producto |-> NombreProducto(reservas[i].producto_id, "N/A")] :
        i \in 1..Len(reservas)}

\* POST /reservas
create_reserva(data) ==
    /\ Len(reservas) < MaxReservas
    /\ IF fkEnforced => (FkOk(data.cliente_id, clientes)
                         /\ FkOk(data.producto_id, productos))
       THEN /\ reservas' = Append(reservas, [cliente_id |-> data.cliente_id,
                                             producto_id |-> data.producto_id])
            /\ resp' = Respuesta("create_reserva", 200)
       ELSE /\ reservas' = reservas
            /\ resp' = Respuesta("create_reserva", 500)
    /\ UNCHANGED <<dialect, now, clientes, productos, recibos, ventas,
                   cuenta_corriente, seq>>

\* --------------------------------------------------------------- ventas

\* The row a sales listing shows.
FilaVenta(i) ==
    [id |-> i, fecha |-> ventas[i].fecha,
     cliente |-> NombreCliente(ventas[i].cliente_id, "Sin cliente"),
     total |-> ventas[i].total]

\* GET /ventas with the default limit of 100 rows.
list_ventas == {FilaVenta(i) : i \in 1..Len(ventas)}

\* GET /ventas/filtrar?desde&hasta
filtrar_ventas(desde, hasta) ==
    {FilaVenta(i) : i \in {x \in 1..Len(ventas) :
                              EnRango(ventas[x].fecha, desde, hasta)}}

\* POST /ventas
create_venta(data) ==
    /\ Len(ventas) < MaxVentas
    /\ IF fkEnforced => (FkOk(data.recibo_id, recibos)
                         /\ FkOk(data.cliente_id, clientes))
       THEN /\ ventas' = Append(ventas, [recibo_id |-> data.recibo_id,
                                         cliente_id |-> data.cliente_id,
                                         fecha |-> now, total |-> data.total])
            /\ resp' = Respuesta("create_venta", 200)
       ELSE /\ ventas' = ventas
            /\ resp' = Respuesta("create_venta", 500)
    /\ UNCHANGED <<dialect, now, clientes, productos, recibos, reservas,
                   cuenta_corriente, seq>>

\* ----------------------------------------------------- cuenta corriente

\* POST /cuenta-corriente
create_movimiento(data) ==
    /\ Len(cuenta_corriente) < MaxLibro
    /\ IF fkEnforced => (data.cliente_id \in DOMAIN clientes
                         /\ FkOk(data.recibo_id, recibos))
       THEN /\ cuenta_corriente' = Append(cuenta_corriente,
                    [cliente_id |-> data.cliente_id, tipo |-> data.tipo,
                     monto |-> data.monto, recibo_id |-> data.recibo_id])
            /\ resp' = Respuesta("create_movimiento", 200)
       ELSE /\ cuenta_corriente' = cuenta_corriente
            /\ resp' = Respuesta("create_movimiento", 500)
    /\ UNCHANGED <<dialect, now, clientes, productos, recibos, reservas,
                   ventas, seq>>

\* func.sum(CuentaCorriente.monto) over the rows of one customer and kind,
\* accumulated in Float row after row in table order; coalesce(..., 0) for
\* no row.
RECURSIVE SumaMontos(_, _, _)
SumaMontos(movs, cliente_id, tipo) ==
    IF movs = <<>> THEN 0
    ELSE LET n == Len(movs)
             m == movs[n]
             antes == SumaMontos(SubSeq(movs, 1, n - 1), cliente_id, tipo)
         IN  IF m.cliente_id = cliente_id /\ m.tipo = tipo
             THEN Mas(antes, m.monto)
             ELSE antes

\* get_saldo with the HABER sum taken over every customer's rows.
get_saldo_HaberDeTodos(cliente_id) ==
    LET debe  == SumaMontos(cuenta_corriente, cliente_id, "DEBE")
        haber == SumaMontos([i \in 1..Len(cuenta_corriente) |->
                                [cuenta_corriente[i] EXCEPT !.cliente_id = cliente_id]],
                            cliente_id, "HABER")
    IN  Menos(debe, haber)

\* What get_saldo computes, over the ledger rows movs.
Saldo(movs, cliente_id) ==
    LET debe  == SumaMontos(movs, cliente_id, "DEBE")
        haber == SumaMontos(movs, cliente_id, "HABER")
    IN  Menos(debe, haber)

\* GET /cuenta-corriente/{cliente_id}/saldo
get_saldo(cliente_id) == Saldo(cuenta_corriente, cliente_id)

\* ---------------------------------------------------------------- stats

\* The customers of the grouped DEBE query: one group per cliente_id that
\* has a DEBE row.
ClientesConDebe ==
    {cuenta_corriente[i].cliente_id : i \in {x \in 1..Len(cuenta_corriente) :
                                            cuenta_corriente[x].tipo = "DEBE"}}

\* haber_dict.get(c, 0): the HABER sum of the customer's group, 0 when the
\* customer has no HABER row.
HaberDe(c) == SumaMontos(cuenta_corriente, c, "HABER")

\* GET /stats, "clientes_con_deuda": the DEBE groups whose sum is greater
\* than the customer's HABER sum.
clientes_con_deuda ==
    Cardinality({c \in ClientesConDebe :
                    SumaMontos(cuenta_corriente, c, "DEBE") > HaberDe(c)})

ClienteAna == {d \in ClienteCreate : d.nombre = "Ana"}

\* The rows that reference the first customer: one receipt number, the full
\* amount, no line items, no linked receipt, kind DEBE.
ReciboDeCliente ==
    {d \in ReciboCreate : /\ d.items = <<>>
                          /\ d.numero = "R1"
                          /\ d.total = MaxMonto
                          /\ d.cliente_id = 1}
VentaDeCliente ==
    {d \in VentaCreate : /\ d.recibo_id = None
                         /\ d.total = MaxMonto
                         /\ d.cliente_id = 1}
DeudaDeCliente ==
    {d \in CuentaCorrienteCreate : /\ d.recibo_id = None
                                   /\ d.tipo = "DEBE"
                                   /\ d.monto = MaxMonto
                                   /\ d.cliente_id = 1}

\* Customer maintenance, with the rows that reference customers.
NextClientes ==
    \/ \E data \in ClienteCreate : create_cliente(data)
    \/ \E cid \in 1..MaxClientes, data \in ClienteCreate : update_cliente(cid, data)
    \/ \E cid \in 1..MaxClientes : delete_cliente(cid)
    \/ \E data \in ReciboDeCliente : create_recibo(data)
    \/ \E rid \in 1..MaxRecibos : delete_recibo(rid)
    \/ \E data \in VentaDeCliente : create_venta(data)
    \/ \E data \in DeudaDeCliente :
         Len(cuenta_corriente) < MaxMovs /\ create_movimiento(data)

SpecClientes == Init /\ [][NextClientes]_vars

\* One product code and initial stock.
ProductoP1 == {d \in ProductoCreate : d.codigo = "P1" /\ d.stock = MaxCantidad}

\* Rows that reference the first customer and product, or none: one receipt
\* number, the full amount, no line items, no linked receipt.
ReciboListado ==
    {d \in ReciboCreate : /\ d.items = <<>>
                          /\ d.numero = "R1"
                          /\ d.total = MaxMonto
                          /\ d.cliente_id \in {None, 1}}
VentaListada ==
    {d \in VentaCreate : /\ d.recibo_id = None
                         /\ d.total = MaxMonto
                         /\ d.cliente_id \in {None, 1}}
ReservaListada ==
    {d \in ReservaCreate : d.cliente_id \in {None, 1} /\ d.producto_id \in {None, 1}}

\* The listings that show customer and product names.
NextListados ==
    \/ \E data \in ClienteAna : create_cliente(data)
    \/ \E cid \in 1..MaxClientes : delete_cliente(cid)
    \/ \E data \in ProductoP1 : create_producto(data)
    \/ \E pid \in 1..MaxProductos : delete_producto(pid)
    \/ \E data \in ReciboListado : create_recibo(data)
    \/ \E data \in VentaListada : create_venta(data)
    \/ \E data \in ReservaListada : create_reserva(data)

SpecListados == Init /\ [][NextListados]_vars

\* Product maintenance.
NextProductos ==
    \/ \E data \in ProductoCreate : create_producto(data)
    \/ \E pid \in 1..MaxProductos, data \in ProductoCreate : update_producto(pid, data)
    \/ \E pid \in 1..MaxProductos, stock \in Stocks : update_stock(pid, stock)
    \/ \E pid \in 1..MaxProductos : delete_producto(pid)

SpecProductos == Init /\ [][NextProductos]_vars

\* Receipt requests with line items, for a customer or none.
ReciboConItems == {d \in ReciboCreate : d.total = MaxMonto}

\* Receipt creation with line items over the products.
NextRecibos ==
    \/ \E data \in ProductoCreate : create_producto(data)
    \/ \E data \in ReciboConItems : create_recibo(data)
    \/ \E rid \in 1..MaxRecibos : delete_recibo(rid)

SpecRecibos == Init /\ [][NextRecibos]_vars

\* One customer name; one receipt number and total, no line items, for the
\* first customer or none: the requests that differ in what the current
\* account reads.
ReciboSinItems ==
    {d \in ReciboCreate : /\ d.items = <<>>
                          /\ d.numero = "R1"
                          /\ d.total = MaxMonto
                          /\ d.cliente_id \in {None, 1}}

\* Ledger requests that link no receipt.
MovimientoSinRecibo ==
    {d \in CuentaCorrienteCreate : d.recibo_id = None /\ d.monto \in Montos}

\* The current account: manual movements and receipts.
NextCuenta ==
    \/ \E data \in ClienteAna : create_cliente(data)
    \/ \E data \in MovimientoSinRecibo :
         Len(cuenta_corriente) < MaxMovs /\ create_movimiento(data)
    \/ \E data \in ReciboSinItems : create_recibo(data)

SpecCuenta == Init /\ [][NextCuenta]_vars

\* Sales of the full amount that link no receipt and no customer.
VentaSuelta ==
    {d \in VentaCreate : /\ d.recibo_id = None
                         /\ d.cliente_id = None
                         /\ d.total = MaxMonto}

\* Receipts of the full amount with no customer and no line items.
ReciboSuelto ==
    {d \in ReciboCreate : /\ d.items = <<>>
                          /\ d.cliente_id = None
                          /\ d.total = MaxMonto}

\* Receipts and sales as the clock moves.
NextFechas ==
    \/ Tick
    \/ \E data \in ReciboSuelto : create_recibo(data)
    \/ \E data \in VentaSuelta : create_venta(data)

SpecFechas == Init /\ [][NextFechas]_vars

\* Debits and credits of one unit or of MontoGrande units, linking no
\* receipt.
MovimientoIdaVuelta ==
    {d \in CuentaCorrienteCreate : /\ d.recibo_id = None
                                   /\ d.tipo \in {"DEBE", "HABER"}
                                   /\ d.monto \in {1, MontoGrande}}

\* The ledger, with amounts far enough apart for a Float sum to round.
NextRedondeo ==
    \/ \E data \in ClienteAna : create_cliente(data)
    \/ \E data \in MovimientoIdaVuelta : create_movimiento(data)

SpecRedondeo == Init /\ [][NextRedondeo]_vars

\* ================================================================ claims

\* The receipt a create_recibo step adds gets this id.
IdNuevoRecibo == NuevoId(recibos, seq.recibos)

\* The step is POST /recibos with body `data`, answered with success.
ReciboCreado(data) == create_recibo(data) /\ resp'.status = 200

RECURSIVE CantidadDe(_, _)
\* The quantities of the lines of `items` that reference product p, summed.
CantidadDe(items, p) ==
    IF items = <<>> THEN 0
    ELSE (IF Head(items).producto_id = p THEN Head(items).cantidad ELSE 0)
         + CantidadDe(Tail(items), p)

\* Some line references a product id that names no product.
ProductoInexistente(items) ==
    \E i \in 1..Len(items) : ~FkOk(items[i].producto_id, productos)

\* C1: every successful receipt creation, for any line list including the
\* empty one, adds exactly one Receipt row, exactly one ledger entry of kind
\* DEBE whose amount is the receipt total and which is linked to the new
\* receipt, and exactly one Sale row referencing the new receipt with the
\* same total.
C1_ReciboDebeVenta ==
    [][\A data \in ReciboCreate : ReciboCreado(data) =>
        LET id == IdNuevoRecibo
            n  == Len(cuenta_corriente)
            v  == Len(ventas)
        IN  /\ id \notin DOMAIN recibos
            /\ DOMAIN recibos' = DOMAIN recibos \cup {id}
            /\ Len(cuenta_corriente') = n + 1
            /\ SubSeq(cuenta_corriente', 1, n) = cuenta_corriente
            /\ cuenta_corriente'[n + 1].tipo = "DEBE"
            /\ cuenta_corriente'[n + 1].monto = data.total
            /\ cuenta_corriente'[n + 1].recibo_id = id
            /\ Len(ventas') = v + 1
            /\ SubSeq(ventas', 1, v) = ventas
            /\ ventas'[v + 1].recibo_id = id
            /\ ventas'[v + 1].total = data.total]_vars

\* C2: after a successful receipt creation with N line items that reference
\* existing products, exactly N ReceiptLine rows exist for that receipt and
\* the stock of each referenced product has decreased by exactly the quantity
\* of its lines (a negative resulting stock is allowed); a line with no
\* product reference changes no product's stock.
C2_LineasYStock ==
    [][\A data \in ReciboCreate :
        (ReciboCreado(data) /\ ~ProductoInexistente(data.items)) =>
            /\ Len(recibos'[IdNuevoRecibo].items) = Len(data.items)
            /\ DOMAIN productos' = DOMAIN productos
            /\ \A p \in DOMAIN productos :
                 productos'[p].stock =
                    productos[p].stock - CantidadDe(data.items, p)]_vars

\* C3: if any line item of a receipt-creation request references a product id
\* that does not exist, the call fails with a client error (4xx) and
\* afterwards no row has been added to Receipt, ReceiptLine, LedgerEntry or
\* Sale and no product's stock has changed, wherever the bad line is.
C3_ProductoInexistenteRollback ==
    [][\A data \in ReciboCreate :
        (create_recibo(data) /\ ProductoInexistente(data.items)) =>
            /\ resp'.status \in 400..499
            /\ recibos' = recibos
            /\ cuenta_corriente' = cuenta_corriente
            /\ ventas' = ventas
            /\ productos' = productos]_vars

\* C6: creating a receipt whose number equals the number of an existing
\* receipt fails with a conflict error (409), not a generic or internal
\* failure, and no receipt or receipt-line row of the failed request persists.
C6_NumeroDuplicadoConflicto ==
    [][\A data \in ReciboCreate :
        (create_recibo(data) /\ ~NumeroLibre(data.numero)) =>
            /\ resp'.status = 409
            /\ recibos' = recibos]_vars

\* The ledger rows of customer c of one kind, in table order.
FilasDe(c, tipo) ==
    LET Propia(m) == m.cliente_id = c /\ m.tipo = tipo
    IN  SelectSeq(cuenta_corriente, Propia)

RECURSIVE SumaFloat(_)
\* The Float sum of the amounts of the rows filas, first to last.
SumaFloat(filas) ==
    IF filas = <<>> THEN 0
    ELSE Mas(SumaFloat(SubSeq(filas, 1, Len(filas) - 1)),
             filas[Len(filas)].monto)

\* C4: after any sequence of ledger insertions (manual or by a receipt), the
\* balance get_saldo returns for a customer is the sum of that customer's
\* DEBE amounts minus the sum of that customer's HABER amounts, counting only
\* that customer's entries, and 0 for a customer with no ledger entry.  The
\* sums and the difference are the Float ones.
C4_SaldoEsDebeMenosHaber ==
    \A c \in 1..MaxClientes :
        /\ get_saldo(c) = Menos(SumaFloat(FilasDe(c, "DEBE")),
                                SumaFloat(FilasDe(c, "HABER")))
        /\ (\A i \in 1..Len(cuenta_corriente) :
                cuenta_corriente[i].cliente_id # c) => get_saldo(c) = 0

\* C4 witness: one customer owes, another is in credit, after a receipt.
C4_Witness ==
    /\ \E c, d \in 1..MaxClientes : get_saldo(c) > 0 /\ get_saldo(d) < 0
    /\ DOMAIN recibos # {}

\* Some product already has this code.
CodigoEnUso(codigo) == \E p \in DOMAIN productos : productos[p].codigo = codigo

\* C5: creating a product whose code equals the code of an existing product
\* is rejected and leaves the product table unchanged (same rows, same
\* count); consequently no two products ever share a code.
C5_CodigoUnico ==
    /\ [](\A p, q \in DOMAIN productos :
            productos[p].codigo = productos[q].codigo => p = q)
    /\ [][\A data \in ProductoCreate :
            (create_producto(data) /\ CodigoEnUso(data.codigo)) =>
                /\ resp'.status # 200
                /\ productos' = productos]_vars

\* C5 witness: a creation has just been rejected with a product stored.
C5_Witness ==
    /\ resp = Respuesta("create_producto", 500)
    /\ productos # <<>>

\* Whether a row stamped `fecha` is listed between desde and hasta, as C7
\* states it: listed on the day hasta at any time, listed from desde up to
\* hasta, not listed one day after hasta.
C7Incluye(fecha, listada, desde, hasta) ==
    /\ (desde <= fecha[1] /\ fecha[1] = hasta) => listada
    /\ (desde <= fecha[1] /\ fecha[1] < hasta) => listada
    /\ fecha[1] = hasta + 1 => ~listada

\* C7: for the date-filtered listings of receipts and sales with bounds desde
\* and hasta, every row whose timestamp falls on the date hasta, at any time
\* of that day, is included, every row dated on or after desde and before
\* hasta is included, and a row dated one day after hasta is excluded.
C7_FiltroInclusivo ==
    \A desde, hasta \in 1..MaxDia :
        /\ \A r \in DOMAIN recibos :
             C7Incluye(recibos[r].fecha,
                       FilaRecibo(r) \in filtrar_recibos(desde, hasta),
                       desde, hasta)
        /\ \A i \in 1..Len(ventas) :
             C7Incluye(ventas[i].fecha,
                       FilaVenta(i) \in filtrar_ventas(desde, hasta),
                       desde, hasta)

\* C8: the customers-in-debt count of GET /stats is the number of customers
\* whose balance, as get_saldo computes it, is strictly greater than 1 unit;
\* a customer whose balance is positive but not above 1 is not counted.
C8_DeudaSobreUnaUnidad ==
    (\A i \in 1..Len(cuenta_corriente) :
        cuenta_corriente[i].cliente_id \in DOMAIN clientes) =>
    clientes_con_deuda = Cardinality({c \in 1..MaxClientes : get_saldo(c) > 1})

\* Customer c is listed by GET /clientes; GET /clientes/{c} returns the
\* record with the active flag false.
Listado(c) == c \in list_clientes
DeBaja(c) == get_cliente(c).status = 200 /\ get_cliente(c).body.activo = FALSE

\* C9: once a customer is soft-deleted it no longer appears in the GET
\* /clientes listing, whatever operations follow, while a direct fetch by id
\* still returns the record with the active flag false; and the delete
\* removes no ledger, receipt or sale row.
C9_BajaLogica ==
    [][/\ \A c \in DOMAIN clientes :
            clientes[c].activo = FALSE => (~Listado(c))' /\ DeBaja(c)'
       /\ \A cid \in DOMAIN clientes :
            delete_cliente(cid) =>
                /\ (~Listado(cid))' /\ DeBaja(cid)'
                /\ recibos' = recibos
                /\ ventas' = ventas
                /\ cuenta_corriente' = cuenta_corriente]_vars

\* C9 witness: the only customer has just been soft-deleted while a receipt,
\* a sale and a ledger row reference it.
C9_Witness ==
    /\ resp = Respuesta("delete_cliente", 200)
    /\ Len(clientes) = 1 /\ DeBaja(1) /\ ~Listado(1)
    /\ \E r \in DOMAIN recibos : recibos[r].cliente_id = 1
    /\ \E i \in 1..Len(ventas) : ventas[i].cliente_id = 1
    /\ \E i \in 1..Len(cuenta_corriente) : cuenta_corriente[i].cliente_id = 1

\* The reference is NULL or names no row of the table.
SinReferente(ref, tabla) == ref \notin DOMAIN tabla

\* The reference names a soft-deleted row of the table.
ReferenteDeBaja(ref, tabla) == ref \in DOMAIN tabla /\ tabla[ref].activo = FALSE

\* C10 as stated: in the receipt, sale and reservation listings, a row whose
\* customer or product reference is missing (null or pointing to no record)
\* or points to a soft-deleted record is shown with the fixed placeholder
\* string instead of the referent's name.
C10_AusenteOBajaComoPlaceholder ==
    /\ \A f \in list_recibos :
         LET ref == recibos[f.id].cliente_id IN
         (SinReferente(ref, clientes) \/ ReferenteDeBaja(ref, clientes))
            => f.cliente = "Sin cliente"
    /\ \A f \in list_ventas :
         LET ref == ventas[f.id].cliente_id IN
         (SinReferente(ref, clientes) \/ ReferenteDeBaja(ref, clientes))
            => f.cliente = "Sin cliente"
    /\ \A f \in list_reservas :
         LET c == reservas[f.id].cliente_id
             p == reservas[f.id].producto_id
         IN  /\ (SinReferente(c, clientes) \/ ReferenteDeBaja(c, clientes))
                    => f.cliente = "N/A"
             /\ (SinReferente(p, productos) \/ ReferenteDeBaja(p, productos))
                    => f.producto = "N/A"

\* How a listing shows reference `ref` into `tabla` as `texto`: the
\* placeholder when the reference is NULL or names no row, the name of the
\* row it names otherwise, soft-deleted or not.
Mostrado(texto, ref, tabla, ausente) ==
    /\ SinReferente(ref, tabla) => texto = ausente
    /\ ref \in DOMAIN tabla => texto = tabla[ref].nombre

\* C10, amended: in the receipt, sale and reservation listings every stored
\* row is shown (the request does not fail); a row whose customer or product
\* reference is null or points to no record is shown with the fixed
\* placeholder string, and a row that points to a record, soft-deleted or
\* not, is shown with that record's name.
C10_AusenteComoPlaceholder ==
    /\ {f.id : f \in list_recibos} = DOMAIN recibos
    /\ {f.id : f \in list_ventas} = DOMAIN ventas
    /\ {f.id : f \in list_reservas} = DOMAIN reservas
    /\ \A f \in list_recibos :
         Mostrado(f.cliente, recibos[f.id].cliente_id, clientes, "Sin cliente")
    /\ \A f \in list_ventas :
         Mostrado(f.cliente, ventas[f.id].cliente_id, clientes, "Sin cliente")
    /\ \A f \in list_reservas :
         /\ Mostrado(f.cliente, reservas[f.id].cliente_id, clientes, "N/A")
         /\ Mostrado(f.producto, reservas[f.id].producto_id, productos, "N/A")

\* C10 witness: a receipt of a soft-deleted customer, a sale with no customer
\* and a reservation of a product id that names no product are listed.
C10_Witness ==
    /\ \E f \in list_recibos : ReferenteDeBaja(recibos[f.id].cliente_id, clientes)
    /\ \E f \in list_ventas : ventas[f.id].cliente_id = None
    /\ \E f \in list_reservas :
         /\ reservas[f.id].producto_id # None
         /\ SinReferente(reservas[f.id].producto_id, productos)

\* C11: for any customer and any amount X, a DEBE ledger entry of X followed
\* by a HABER ledger entry of X for the same customer returns that customer's
\* balance (get_saldo) to the value it had before the two insertions, and
\* leaves every other customer's balance as it was.  The ledger only grows
\* at its end, so when a HABER X is inserted and the last row is a DEBE X of
\* the same customer, the rows before that one are the ledger as it was
\* before the two insertions.
C11_IdaYVuelta ==
    [][\A data \in CuentaCorrienteCreate :
        LET n == Len(cuenta_corriente) IN
        (/\ create_movimiento(data)
         /\ resp'.status = 200
         /\ data.tipo = "HABER"
         /\ n > 0
         /\ cuenta_corriente[n].tipo = "DEBE"
         /\ cuenta_corriente[n].cliente_id = data.cliente_id
         /\ cuenta_corriente[n].monto = data.monto) =>
            \A c \in 1..MaxClientes :
                get_saldo(c)' = Saldo(SubSeq(cuenta_corriente, 1, n - 1), c)]_vars

====
